---- MODULE Spec2Model ----
(***************************************************************************)
(* Rubin: an interactive shell (src/src/main.rs).  The session owns the    *)
(* current directory, a navigation history with a cursor, a registry of    *)
(* custom commands and an overlay of environment variables; every input    *)
(* line is split on whitespace and dispatched to one handler.  Text is     *)
(* modelled as TLA+ strings handled as sequences of characters, the        *)
(* filesystem as a tree of directories and files below "/".                *)
(***************************************************************************)
EXTENDS Integers, Sequences, FiniteSets, TLC

VARIABLES
    current_dir,      \* Shell.current_dir: the location, an absolute path
    history,          \* Shell.history: the visited locations
    history_index,    \* Shell.history_index: the cursor, 0-based as in the code
    custom_commands,  \* Shell.custom_commands: the registry
    env_vars,         \* Shell.env_vars: the environment overlay
    fs,               \* the filesystem the std::fs calls act on
    status,           \* "prompt" (about to read a line) | "ran" (the command has
                      \* returned) | "exited" | "panicked"
    stdin_open,       \* FALSE once read_line has returned end of input
    input,            \* the line the last loop iteration read
    output,           \* what the command of this iteration printed, one entry per println!
    calls,            \* the std::fs / std::process calls the command of this iteration made
    invoked,          \* the handler the line was dispatched to, with its arguments
    before            \* the session and filesystem as they were when the line was read

vars == <<current_dir, history, history_index, custom_commands, env_vars, fs,
          status, stdin_open, input, output, calls, invoked, before>>

session == <<current_dir, history, history_index, custom_commands, env_vars>>

(***************************************************************************)
(* Bounds of the model.                                                    *)
(***************************************************************************)
\* cc create is explored while the registry holds fewer entries than this
MaxCommands == 2

\* the navigation methods are explored on histories of up to this many entries
MaxHistory == 3

(***************************************************************************)
(* Text: characters, trimming, splitting.                                  *)
(***************************************************************************)
Char(s, i) == SubSeq(s, i, i)

IsWhitespace(c) == c \in {" ", "\t", "\n", "\r"}

RECURSIVE TrimStart(_)
TrimStart(s) ==
    IF s # "" /\ IsWhitespace(Char(s, 1)) THEN TrimStart(Tail(s)) ELSE s

RECURSIVE TrimEnd(_)
TrimEnd(s) ==
    IF s # "" /\ IsWhitespace(Char(s, Len(s)))
    THEN TrimEnd(SubSeq(s, 1, Len(s) - 1))
    ELSE s

\* str::trim
Trim(s) == TrimEnd(TrimStart(s))

RECURSIVE SplitFrom(_, _, _, _)
SplitFrom(s, i, cur, acc) ==
    IF i > Len(s)
    THEN (IF cur = "" THEN acc ELSE Append(acc, cur))
    ELSE IF IsWhitespace(Char(s, i))
         THEN SplitFrom(s, i + 1, "", IF cur = "" THEN acc ELSE Append(acc, cur))
         ELSE SplitFrom(s, i + 1, cur \o Char(s, i), acc)

\* A tokenizer that keeps a double-quoted run as one token and drops the quotes:
\* what the code does not do.
RECURSIVE SplitQuoted(_, _, _, _, _)
SplitQuoted(s, i, cur, acc, inq) ==
    IF i > Len(s)
    THEN (IF cur = "" THEN acc ELSE Append(acc, cur))
    ELSE IF Char(s, i) = "\""
         THEN SplitQuoted(s, i + 1, cur, acc, ~inq)
         ELSE IF IsWhitespace(Char(s, i)) /\ ~inq
              THEN SplitQuoted(s, i + 1, "", IF cur = "" THEN acc ELSE Append(acc, cur), inq)
              ELSE SplitQuoted(s, i + 1, cur \o Char(s, i), acc, inq)

split_quoted(s) == SplitQuoted(s, 1, "", <<>>, FALSE)

\* str::split_whitespace, collected
split_whitespace(s) == SplitFrom(s, 1, "", <<>>)

\* index of the first occurrence of character c in s, 0 when there is none
RECURSIVE FindFrom(_, _, _)
FindFrom(s, c, i) ==
    IF i > Len(s) THEN 0
    ELSE IF Char(s, i) = c THEN i ELSE FindFrom(s, c, i + 1)

Find(s, c) == FindFrom(s, c, 1)

\* index of the last occurrence of character c in s, 0 when there is none
RECURSIVE FindLastFrom(_, _, _)
FindLastFrom(s, c, i) ==
    IF i < 1 THEN 0
    ELSE IF Char(s, i) = c THEN i ELSE FindLastFrom(s, c, i - 1)

\* the pieces of s between occurrences of character c, empty pieces included
RECURSIVE SplitOn(_, _)
SplitOn(s, c) ==
    LET k == Find(s, c)
    IN  IF k = 0 THEN <<s>>
        ELSE <<SubSeq(s, 1, k - 1)>> \o SplitOn(SubSeq(s, k + 1, Len(s)), c)

\* str::lines: split at "\n", no final empty line, one trailing "\r" dropped
StripCr(l) ==
    IF l # "" /\ Char(l, Len(l)) = "\r" THEN SubSeq(l, 1, Len(l) - 1) ELSE l

Lines(s) ==
    LET parts == SplitOn(s, "\n")
        kept  == IF parts[Len(parts)] = "" THEN SubSeq(parts, 1, Len(parts) - 1) ELSE parts
    IN  [i \in 1..Len(kept) |-> StripCr(kept[i])]

(***************************************************************************)
(* Numbers: formatting a usize, parsing a usize.                           *)
(***************************************************************************)
Digits == "0123456789"

IsDigit(c) == Find(Digits, c) # 0

DigitVal(c) == Find(Digits, c) - 1

\* Display for usize
RECURSIVE UsizeToString(_)
UsizeToString(n) ==
    IF n < 10 THEN Char(Digits, n + 1)
    ELSE UsizeToString(n \div 10) \o Char(Digits, (n % 10) + 1)

RECURSIVE AllDigits(_)
AllDigits(s) == s = "" \/ (IsDigit(Char(s, 1)) /\ AllDigits(Tail(s)))

RECURSIVE StripZeros(_)
StripZeros(s) ==
    IF Len(s) > 1 /\ Char(s, 1) = "0" THEN StripZeros(Tail(s)) ELSE s

\* usize::MAX on a 64-bit target, in decimal
UsizeMax == "18446744073709551615"

\* a <= b for digit strings of the same length
RECURSIVE DigitsLe(_, _)
DigitsLe(a, b) ==
    \/ a = ""
    \/ DigitVal(Char(a, 1)) < DigitVal(Char(b, 1))
    \/ (Char(a, 1) = Char(b, 1) /\ DigitsLe(Tail(a), Tail(b)))

FitsUsize(d) ==
    \/ Len(d) < Len(UsizeMax)
    \/ (Len(d) = Len(UsizeMax) /\ DigitsLe(d, UsizeMax))

\* str::parse::<usize>: an optional "+", then decimal digits whose value fits
\* 64 bits.  The value is kept as its digit string without leading zeros.
parse_usize(s) ==
    LET body == IF s # "" /\ Char(s, 1) = "+" THEN Tail(s) ELSE s
    IN  IF body = "" \/ ~AllDigits(body) \/ ~FitsUsize(StripZeros(body))
        THEN [ok |-> FALSE, digits |-> ""]
        ELSE [ok |-> TRUE, digits |-> StripZeros(body)]

RECURSIVE ToNat(_)
ToNat(d) ==
    IF d = "" THEN 0
    ELSE 10 * ToNat(SubSeq(d, 1, Len(d) - 1)) + DigitVal(Char(d, Len(d)))

\* index > 0 && index <= len, for a parsed index and a vector length
InRange(digits, len) ==
    /\ Len(digits) <= 9
    /\ ToNat(digits) > 0
    /\ ToNat(digits) <= len

(***************************************************************************)
(* Paths and the filesystem.  A path is text; the operating system         *)
(* resolves it component by component.  fs.dirs is the set of directories  *)
(* and fs.files maps each regular file to its contents, both keyed by the  *)
(* resolved path, a sequence of names below the root <<>>.                 *)
(***************************************************************************)
RECURSIVE DropEmpty(_)
DropEmpty(q) ==
    IF q = <<>> THEN <<>>
    ELSE IF Head(q) = "" THEN DropEmpty(Tail(q))
         ELSE <<Head(q)>> \o DropEmpty(Tail(q))

\* the components of a path, separators and empty components dropped
Components(p) == DropEmpty(SplitOn(p, "/"))

\* PathBuf::join: an absolute argument replaces the base
join(base, arg) ==
    IF arg # "" /\ Char(arg, 1) = "/" THEN arg
    ELSE IF base # "" /\ Char(base, Len(base)) = "/" THEN base \o arg
         ELSE base \o "/" \o arg

Front(q) == SubSeq(q, 1, Len(q) - 1)

Last(q) == q[Len(q)]

IsPrefix(a, b) == Len(a) <= Len(b) /\ SubSeq(b, 1, Len(a)) = a

NoEntry == <<"?">>

\* follow components that must all be directories, from directory `at`
RECURSIVE WalkDirs(_, _, _)
WalkDirs(f, at, comps) ==
    IF comps = <<>> THEN at
    ELSE LET c == Head(comps)
         IN  IF c = "." THEN WalkDirs(f, at, Tail(comps))
             ELSE IF c = ".."
                  THEN WalkDirs(f, IF at = <<>> THEN at ELSE Front(at), Tail(comps))
                  ELSE IF Append(at, c) \in f.dirs
                       THEN WalkDirs(f, Append(at, c), Tail(comps))
                       ELSE NoEntry

\* what a path names: kind is "dir", "file", "none" (the parent exists, the
\* last name does not) or "error" (a component on the way is missing or is no
\* directory); dots says the path ends in "." or ".."
Lookup(f, p) ==
    LET comps == Components(p)
    IN  IF comps = <<>> THEN [kind |-> "dir", at |-> <<>>, dots |-> TRUE]
        ELSE LET parent == WalkDirs(f, <<>>, Front(comps))
                 name   == Last(comps)
             IN  IF parent = NoEntry THEN [kind |-> "error", at |-> NoEntry, dots |-> FALSE]
                 ELSE IF name \in {".", ".."}
                      THEN [kind |-> "dir", at |-> WalkDirs(f, parent, <<name>>), dots |-> TRUE]
                      ELSE LET at == Append(parent, name)
                           IN  [kind |-> IF at \in f.dirs THEN "dir"
                                         ELSE IF at \in DOMAIN f.files THEN "file"
                                         ELSE "none",
                                at |-> at, dots |-> FALSE]

Children(f, d) ==
    {q \in f.dirs \cup DOMAIN f.files : q # <<>> /\ Front(q) = d}

\* Path::exists answering true for every path
path_always_exists(f, p) == TRUE

\* Path::exists
path_exists(f, p) == Lookup(f, p).kind \in {"dir", "file"}

\* Path::is_dir
is_dir(f, p) == Lookup(f, p).kind = "dir"

\* mkdir(2): the parent must exist and the name must be free.  notfound stands
\* for ENOENT and for ENOTDIR alike: below a regular file nothing can be
\* created, so create_dir_all fails without effect on either.
sys_mkdir(f, p) ==
    LET r == Lookup(f, p)
    IN  IF r.kind = "none"
        THEN [ok |-> TRUE, notfound |-> FALSE, fs |-> [f EXCEPT !.dirs = @ \cup {r.at}]]
        ELSE [ok |-> FALSE, notfound |-> r.kind = "error", fs |-> f]

RECURSIVE Glue(_)
Glue(q) ==
    IF q = <<>> THEN ""
    ELSE IF Len(q) = 1 THEN q[1] ELSE q[1] \o "/" \o Glue(Tail(q))

\* Path::parent: lexical, "." components normalised away, None at the root
LexParent(p) ==
    LET comps == SelectSeq(Components(p), LAMBDA c : c # ".")
    IN  IF comps = <<>> THEN [some |-> FALSE, path |-> ""]
        ELSE [some |-> TRUE, path |-> "/" \o Glue(Front(comps))]

\* std::fs::create_dir_all: create the directory; when a parent is missing,
\* create the parents first; an existing directory counts as success
RECURSIVE fs_create_dir_all(_, _)
fs_create_dir_all(f, p) ==
    LET first == sys_mkdir(f, p)
    IN  IF first.ok THEN [ok |-> TRUE, fs |-> first.fs]
        ELSE IF ~first.notfound
             THEN [ok |-> is_dir(f, p), fs |-> f]
             ELSE LET par == LexParent(p)
                  IN  IF ~par.some THEN [ok |-> FALSE, fs |-> f]
                      ELSE LET up == fs_create_dir_all(f, par.path)
                           IN  IF ~up.ok THEN up
                               ELSE LET again == sys_mkdir(up.fs, p)
                                    IN  IF again.ok THEN [ok |-> TRUE, fs |-> again.fs]
                                        ELSE [ok |-> is_dir(up.fs, p), fs |-> up.fs]

\* remove_dir_all in place of remove_dir: the directory goes with all below it
fs_remove_dir_all(f, p) ==
    LET r == Lookup(f, p)
    IN  IF r.kind = "dir" /\ ~r.dots /\ r.at # <<>>
        THEN [ok |-> TRUE,
              fs |-> [dirs  |-> {q \in f.dirs : ~IsPrefix(r.at, q)},
                      files |-> [q \in {x \in DOMAIN f.files : ~IsPrefix(r.at, x)} |-> f.files[q]]]]
        ELSE [ok |-> FALSE, fs |-> f]

\* std::fs::remove_dir: an existing, empty directory that is neither the root
\* nor named through "." or ".."
fs_remove_dir(f, p) ==
    LET r == Lookup(f, p)
    IN  IF r.kind = "dir" /\ ~r.dots /\ r.at # <<>> /\ Children(f, r.at) = {}
        THEN [ok |-> TRUE, fs |-> [f EXCEPT !.dirs = @ \ {r.at}]]
        ELSE [ok |-> FALSE, fs |-> f]

Rebase(q, from, to) == to \o SubSeq(q, Len(from) + 1, Len(q))

\* std::fs::rename: the source must exist; a directory may replace only an
\* empty directory and may not move below itself, a file may replace a file
fs_rename(f, old, new) ==
    LET o == Lookup(f, old)
        n == Lookup(f, new)
    IN  IF o.kind \notin {"dir", "file"} \/ o.dots \/ n.kind = "error" \/ n.dots
        THEN [ok |-> FALSE, fs |-> f]
        ELSE IF o.at = n.at THEN [ok |-> TRUE, fs |-> f]
        ELSE IF o.kind = "dir"
             THEN IF \/ n.kind = "file"
                     \/ (n.kind = "dir" /\ Children(f, n.at) # {})
                     \/ IsPrefix(o.at, n.at)
                  THEN [ok |-> FALSE, fs |-> f]
                  ELSE LET moved(q) == IF IsPrefix(o.at, q) THEN Rebase(q, o.at, n.at) ELSE q
                           keptd == {q \in f.dirs : q # n.at}
                       IN  [ok |-> TRUE,
                            fs |-> [dirs  |-> {moved(q) : q \in keptd},
                                    files |-> [q \in {moved(x) : x \in DOMAIN f.files} |->
                                                 f.files[CHOOSE x \in DOMAIN f.files : moved(x) = q]]]]
             ELSE IF n.kind = "dir"
                  THEN [ok |-> FALSE, fs |-> f]
                  ELSE [ok |-> TRUE,
                        fs |-> [f EXCEPT !.files =
                                  [q \in (DOMAIN f.files \ {o.at}) \cup {n.at} |->
                                     IF q = n.at THEN f.files[o.at] ELSE f.files[q]]]]

\* std::fs::copy: the source must be a regular file; the destination is
\* created or truncated, then written (so a copy onto itself empties the file)
fs_copy(f, from, to) ==
    LET s == Lookup(f, from)
        d == Lookup(f, to)
    IN  IF s.kind # "file" \/ d.kind \in {"error", "dir"}
        THEN [ok |-> FALSE, fs |-> f]
        ELSE [ok |-> TRUE,
              fs |-> [f EXCEPT !.files =
                        [q \in DOMAIN f.files \cup {d.at} |->
                           IF q = d.at THEN (IF d.at = s.at THEN "" ELSE f.files[s.at])
                           ELSE f.files[q]]]]

\* std::fs::read_to_string
fs_read_to_string(f, p) ==
    LET r == Lookup(f, p)
    IN  IF r.kind = "file" THEN [ok |-> TRUE, contents |-> f.files[r.at]]
        ELSE [ok |-> FALSE, contents |-> ""]

\* std::fs::read_dir: the names in a directory, in no particular order
fs_read_dir(f, p) ==
    LET r == Lookup(f, p)
    IN  IF r.kind = "dir" THEN [ok |-> TRUE, names |-> {Last(q) : q \in Children(f, r.at)}]
        ELSE [ok |-> FALSE, names |-> {}]

\* the orders in which a set of names can be listed
Orderings(S) ==
    {q \in [1..Cardinality(S) -> S] : \A i, j \in 1..Cardinality(S) : i # j => q[i] # q[j]}

(***************************************************************************)
(* The session.                                                            *)
(***************************************************************************)
None == [some |-> FALSE, v |-> ""]

Some(x) == [some |-> TRUE, v |-> x]

\* slice::get(i) answering the empty text where there is no element i
get_or_empty(args, i) == Some(IF i < Len(args) THEN args[i + 1] ELSE "")

\* slice::get(i), 0-based
Get(args, i) == IF i < Len(args) THEN Some(args[i + 1]) ELSE None

\* HashMap::insert keeping the value of a key that is already bound
insert_if_absent(m, k, v) == [x \in DOMAIN m \cup {k} |-> IF x \in DOMAIN m THEN m[x] ELSE v]

\* HashMap::insert
Insert(m, k, v) == [x \in DOMAIN m \cup {k} |-> IF x = k THEN v ELSE m[x]]

NoVars == [x \in {} |-> ""]

\* what env::current_dir() returns at start
StartDir == "/w"

EnvFile == "A=1\nBADLINE\nB = 2"

FsProject ==
    [dirs  |-> {<<>>, <<"w">>},
     files |-> (<<"w", "f.env">> :> EnvFile)
               @@ (<<"w", "g.env">> :> "A=2\n A = 3=4 \r\n")
               @@ (<<"s.sh">> :> "echo hi\n")]

FsEmpty == [dirs |-> {<<>>, <<"w">>}, files |-> (<<"s.sh">> :> "echo hi\n")]

FsSubFile ==
    [dirs |-> {<<>>, <<"w">>}, files |-> (<<"w", "sub">> :> "x") @@ (<<"s.sh">> :> "echo hi\n")]

InitialFilesystems == {FsProject, FsEmpty, FsSubFile}

\* the lines typed at the prompt
InputLines ==
    { "", "   ", "dir", "help", "<-", "->", "clear", "exit", "frobnicate", "Dir sub",
      "mkdir sub", "rmdir sub", "mkdir a/b", "rmdir a/b", "rmdir ../w", "mkdir", "rmdir",
      "rename sub a", "rename sub", "move f.env sub/f.env", "move f.env",
      "copy sub c", "copy",
      "type f.env", "type nofile", "type",
      "run ../s.sh", "run .", "run nofile", "run",
      "source f.env", "source g.env", "source nofile", "source",
      "setenv A 5", "setenv A",
      "cc", "cc bogus", "cc List x", "cc list",
      "cc create build \"echo hi\" \"builds the thing\"", "cc create a d x", "cc create a d",
      "cc delete 1", "cc delete 2", "cc delete 0", "cc delete abc",
      "cc delete 18446744073709551615", "cc delete 18446744073709551616", "cc delete",
      "cc refactor 2 d", "cc refactor 1 d x", "cc refactor 1", "cc refactor 0 d",
      "cc refactor x d", "cc refactor" }

\* Shell::run: the line read, trimmed
command_of(line) == Trim(line \o "\n")

\* Shell::execute_command: the tokens of the command
ArgsOf == [line \in InputLines |-> split_whitespace(command_of(line))]

CommandWords ==
    {"dir", "mkdir", "rmdir", "help", "<-", "->", "clear", "rename", "move", "copy",
     "type", "exit", "cc", "run", "source", "setenv"}

\* the lines that execute_command dispatches on each command word
LinesByWord ==
    [first \in CommandWords |->
        {line \in InputLines : ArgsOf[line] # <<>> /\ ArgsOf[line][1] = first}]

LinesFor(first) == LinesByWord[first]

Snapshot ==
    [current_dir |-> current_dir, history |-> history, history_index |-> history_index,
     custom_commands |-> custom_commands, env_vars |-> env_vars, fs |-> fs]

Call(op, args, ok) == [op |-> op, args |-> args, ok |-> ok]

Invoke(method, args) == [method |-> method, args |-> args]

\* Shell::new
Init ==
    /\ current_dir = StartDir
    /\ history = <<StartDir>>
    /\ history_index = 0
    /\ custom_commands = <<>>
    /\ env_vars = NoVars
    /\ fs \in InitialFilesystems
    /\ status = "prompt"
    /\ stdin_open = TRUE
    /\ input = ""
    /\ output = <<>>
    /\ calls = <<>>
    /\ invoked = Invoke("run", <<>>)
    /\ before = Snapshot

\* Shell::run: one iteration reads `line` and dispatches it
Read(line) ==
    /\ status = "prompt"
    /\ stdin_open
    /\ input' = line
    /\ before' = Snapshot
    /\ UNCHANGED stdin_open

\* a handler that prints and empties the registry: what the code does not do
says_clearing(method, args, out) ==
    /\ invoked' = Invoke(method, args)
    /\ output' = out
    /\ calls' = <<>>
    /\ custom_commands' = <<>>
    /\ status' = "ran" /\ UNCHANGED <<current_dir, history, history_index, env_vars, fs>>

\* a handler that touches neither the session nor the filesystem
Says(method, args, out) ==
    /\ invoked' = Invoke(method, args)
    /\ output' = out
    /\ calls' = <<>>
    /\ status' = "ran" /\ UNCHANGED <<session, fs>>

(***************************************************************************)
(* Filesystem-backed handlers.                                             *)
(***************************************************************************)
\* list_dir entering the listed location in the history: what the code does not do
list_dir_recording ==
    \E line \in LinesFor("dir") :
        LET r == fs_read_dir(fs, current_dir)
        IN  /\ Read(line)
            /\ invoked' = Invoke("list_dir", <<>>)
            /\ calls' = <<Call("read_dir", <<current_dir>>, r.ok)>>
            /\ \E listing \in Orderings(r.names) : output' = listing
            /\ history' = Append(history, current_dir)
            /\ history_index' = history_index + 1
            /\ status' = "ran" /\ UNCHANGED <<current_dir, custom_commands, env_vars, fs>>

\* Shell::list_dir ("dir")
list_dir ==
    \E line \in LinesFor("dir") :
        LET r == fs_read_dir(fs, current_dir)
        IN  /\ Read(line)
            /\ invoked' = Invoke("list_dir", <<>>)
            /\ calls' = <<Call("read_dir", <<current_dir>>, r.ok)>>
            /\ \E listing \in Orderings(r.names) : output' = listing
            /\ status' = "ran" /\ UNCHANGED <<session, fs>>

\* Shell::make_dir ("mkdir")
make_dir ==
    \E line \in LinesFor("mkdir") :
        LET dir_name == Get(ArgsOf[line], 1)
            path     == join(current_dir, dir_name.v)
            r        == fs_create_dir_all(fs, path)
        IN  /\ Read(line)
            /\ IF dir_name.some
               THEN /\ invoked' = Invoke("make_dir", <<dir_name>>)
                    /\ calls' = <<Call("create_dir_all", <<path>>, r.ok)>>
                    /\ fs' = r.fs
                    /\ output' = IF r.ok THEN <<>>
                                 ELSE <<"Failed to create directory: " \o dir_name.v>>
                    /\ status' = "ran" /\ UNCHANGED session
               ELSE Says("make_dir", <<dir_name>>, <<"Usage: mkdir <directory_name>">>)

\* Shell::remove_dir ("rmdir")
remove_dir ==
    \E line \in LinesFor("rmdir") :
        LET dir_name == Get(ArgsOf[line], 1)
            path     == join(current_dir, dir_name.v)
            r        == fs_remove_dir(fs, path)
        IN  /\ Read(line)
            /\ IF dir_name.some
               THEN /\ invoked' = Invoke("remove_dir", <<dir_name>>)
                    /\ calls' = <<Call("remove_dir", <<path>>, r.ok)>>
                    /\ fs' = r.fs
                    /\ output' = IF r.ok THEN <<>>
                                 ELSE <<"Failed to remove directory: " \o dir_name.v>>
                    /\ status' = "ran" /\ UNCHANGED session
               ELSE Says("remove_dir", <<dir_name>>, <<"Usage: rmdir <directory_name>">>)

\* Shell::rename_dir ("rename")
rename_dir ==
    \E line \in LinesFor("rename") :
        LET old_name == Get(ArgsOf[line], 1)
            new_name == Get(ArgsOf[line], 2)
            old_path == join(current_dir, old_name.v)
            new_path == join(current_dir, new_name.v)
            r        == fs_rename(fs, old_path, new_path)
        IN  /\ Read(line)
            /\ IF old_name.some /\ new_name.some
               THEN /\ invoked' = Invoke("rename_dir", <<old_name, new_name>>)
                    /\ calls' = <<Call("rename", <<old_path, new_path>>, r.ok)>>
                    /\ fs' = r.fs
                    /\ output' = IF r.ok THEN <<>> ELSE <<"Failed to rename directory.">>
                    /\ status' = "ran" /\ UNCHANGED session
               ELSE Says("rename_dir", <<old_name, new_name>>,
                         <<"Usage: rename <old_name> <new_name>">>)

\* Shell::move_file ("move")
move_file ==
    \E line \in LinesFor("move") :
        LET source    == Get(ArgsOf[line], 1)
            dest      == Get(ArgsOf[line], 2)
            src_path  == join(current_dir, source.v)
            dest_path == join(current_dir, dest.v)
            r         == fs_rename(fs, src_path, dest_path)
        IN  /\ Read(line)
            /\ IF source.some /\ dest.some
               THEN /\ invoked' = Invoke("move_file", <<source, dest>>)
                    /\ calls' = <<Call("rename", <<src_path, dest_path>>, r.ok)>>
                    /\ fs' = r.fs
                    /\ output' = IF r.ok THEN <<>> ELSE <<"Failed to move file.">>
                    /\ status' = "ran" /\ UNCHANGED session
               ELSE Says("move_file", <<source, dest>>, <<"Usage: move <source> <destination>">>)

\* Shell::copy_file ("copy")
copy_file ==
    \E line \in LinesFor("copy") :
        LET source    == Get(ArgsOf[line], 1)
            dest      == Get(ArgsOf[line], 2)
            src_path  == join(current_dir, source.v)
            dest_path == join(current_dir, dest.v)
            r         == fs_copy(fs, src_path, dest_path)
        IN  /\ Read(line)
            /\ IF source.some /\ dest.some
               THEN /\ invoked' = Invoke("copy_file", <<source, dest>>)
                    /\ calls' = <<Call("copy", <<src_path, dest_path>>, r.ok)>>
                    /\ fs' = r.fs
                    /\ output' = IF r.ok THEN <<>> ELSE <<"Failed to copy file.">>
                    /\ status' = "ran" /\ UNCHANGED session
               ELSE Says("copy_file", <<source, dest>>, <<"Usage: copy <source> <destination>">>)

\* Shell::type_file ("type")
type_file ==
    \E line \in LinesFor("type") :
        LET file_name == Get(ArgsOf[line], 1)
            file_path == join(current_dir, file_name.v)
            r         == fs_read_to_string(fs, file_path)
        IN  /\ Read(line)
            /\ IF file_name.some
               THEN /\ invoked' = Invoke("type_file", <<file_name>>)
                    /\ calls' = <<Call("read_to_string", <<file_path>>, r.ok)>>
                    /\ output' = IF r.ok THEN <<r.contents>> ELSE <<"Failed to read file.">>
                    /\ status' = "ran" /\ UNCHANGED <<session, fs>>
               ELSE Says("type_file", <<file_name>>, <<"Usage: type <file_name>">>)

(***************************************************************************)
(* Process-spawning handlers.  Whether a spawn succeeds is the platform's  *)
(* choice; what the child does to the filesystem is outside the session.   *)
(***************************************************************************)
\* the overlay as Command::envs would hand it to a child, one "key=value" each
EnvList(env) ==
    CHOOSE q \in Orderings({k \o "=" \o env[k] : k \in DOMAIN env}) : TRUE

\* run_script handing the overlay to the child: what the code does not do
run_script_with_env ==
    \E line \in LinesFor("run") :
        LET script_path      == Get(ArgsOf[line], 1)
            script_full_path == join(current_dir, script_path.v)
        IN  /\ Read(line)
            /\ invoked' = Invoke("run_script", <<script_path>>)
            /\ status' = "ran" /\ UNCHANGED <<session, fs>>
            /\ IF ~script_path.some
               THEN calls' = <<>> /\ output' = <<"Usage: run <script_path>">>
               ELSE IF ~path_exists(fs, script_full_path)
                    THEN /\ calls' = <<Call("exists", <<script_full_path>>, FALSE)>>
                         /\ output' = <<"Script not found: " \o script_path.v>>
                    ELSE /\ calls' = <<Call("exists", <<script_full_path>>, TRUE),
                                       Call("envs", EnvList(env_vars), TRUE),
                                       Call("spawn", <<"sh", script_full_path>>, TRUE)>>
                         /\ output' = <<>>

\* the exit statuses a child can end with
ExitCodes == {"0", "1"}

\* Shell::run_script ("run"): Command::status() spawns the child and waits for
\* it; it is Err when the spawn fails and Ok(status) whatever the status is
run_script ==
    \E line \in LinesFor("run") :
        LET script_path      == Get(ArgsOf[line], 1)
            script_full_path == join(current_dir, script_path.v)
        IN  /\ Read(line)
            /\ invoked' = Invoke("run_script", <<script_path>>)
            /\ status' = "ran" /\ UNCHANGED <<session, fs>>
            /\ IF ~script_path.some
               THEN calls' = <<>> /\ output' = <<"Usage: run <script_path>">>
               ELSE IF ~path_exists(fs, script_full_path)
                    THEN /\ calls' = <<Call("exists", <<script_full_path>>, FALSE)>>
                         /\ output' = <<"Script not found: " \o script_path.v>>
                    ELSE \E spawned \in BOOLEAN, code \in ExitCodes :
                            /\ calls' = <<Call("exists", <<script_full_path>>, TRUE),
                                          Call("spawn", <<"sh", script_full_path>>, spawned)>>
                                         \o (IF spawned THEN <<Call("wait", <<code>>, TRUE)>>
                                             ELSE <<>>)
                            /\ output' = IF spawned THEN <<>>
                                         ELSE <<"Failed to run script: os error">>

\* Shell::clear_screen ("clear"): unwrap() panics when the spawn fails
clear_screen ==
    \E line \in LinesFor("clear") :
        \E spawned \in BOOLEAN :
            /\ Read(line)
            /\ invoked' = Invoke("clear_screen", <<>>)
            /\ calls' = <<Call("spawn", <<"cmd", "/C", "cls">>, spawned)>>
            /\ output' = <<>>
            /\ status' = IF spawned THEN "ran" ELSE "panicked"
            /\ UNCHANGED <<session, fs>>

\* Shell::exit_shell ("exit"): exit(0)
exit_shell ==
    \E line \in LinesFor("exit") :
        /\ Read(line)
        /\ invoked' = Invoke("exit_shell", <<>>)
        /\ calls' = <<Call("exit", <<"0">>, TRUE)>>
        /\ output' = <<>>
        /\ status' = "exited"
        /\ UNCHANGED <<session, fs>>

(***************************************************************************)
(* Navigation.                                                             *)
(***************************************************************************)
\* go_backward without its guard: what the code does not do
go_backward_unguarded ==
    \E line \in LinesFor("<-") :
        /\ Read(line)
        /\ invoked' = Invoke("go_backward", <<>>)
        /\ output' = <<>>
        /\ calls' = <<>>
        /\ history_index' = history_index - 1
        /\ current_dir' = IF history_index - 1 \in 0..(Len(history) - 1)
                          THEN history[history_index] ELSE ""
        /\ status' = "ran" /\ UNCHANGED <<history, custom_commands, env_vars, fs>>

\* Shell::go_backward ("<-")
go_backward ==
    \E line \in LinesFor("<-") :
        /\ Read(line)
        /\ invoked' = Invoke("go_backward", <<>>)
        /\ output' = <<>>
        /\ calls' = <<>>
        /\ IF history_index > 0
           THEN /\ history_index' = history_index - 1
                /\ current_dir' = history[(history_index - 1) + 1]
           ELSE UNCHANGED <<history_index, current_dir>>
        /\ status' = "ran" /\ UNCHANGED <<history, custom_commands, env_vars, fs>>

\* go_forward without its guard: what the code does not do
go_forward_unguarded ==
    \E line \in LinesFor("->") :
        /\ Read(line)
        /\ invoked' = Invoke("go_forward", <<>>)
        /\ output' = <<>>
        /\ calls' = <<>>
        /\ history_index' = history_index + 1
        /\ current_dir' = IF history_index + 1 < Len(history)
                          THEN history[(history_index + 1) + 1] ELSE ""
        /\ status' = "ran" /\ UNCHANGED <<history, custom_commands, env_vars, fs>>

\* Shell::go_forward ("->")
go_forward ==
    \E line \in LinesFor("->") :
        /\ Read(line)
        /\ invoked' = Invoke("go_forward", <<>>)
        /\ output' = <<>>
        /\ calls' = <<>>
        /\ IF history_index < Len(history) - 1
           THEN /\ history_index' = history_index + 1
                /\ current_dir' = history[(history_index + 1) + 1]
           ELSE UNCHANGED <<history_index, current_dir>>
        /\ status' = "ran" /\ UNCHANGED <<history, custom_commands, env_vars, fs>>

(***************************************************************************)
(* The custom-command registry ("cc ...").                                 *)
(***************************************************************************)
CustomCommand(name, definition, description) ==
    [name |-> name, definition |-> definition, description |-> description]

\* Vec::remove dropping the last element instead of the one asked for
vec_remove_last(v, i) == SubSeq(v, 1, Len(v) - 1)

\* Vec::remove(i), i 0-based: the elements after i move one place down
vec_remove(v, i) ==
    [j \in 1..(Len(v) - 1) |-> IF j <= i THEN v[j] ELSE v[j + 1]]

\* the line of list_custom_commands numbered from 0
format_entry_zero_based(index, command) ==
    UsizeToString(index) \o ": " \o command.name \o " - " \o command.description
        \o " (Definition: " \o command.definition \o ")"

\* "{}: {} - {} (Definition: {})" for enumerate() index `index`
format_entry(index, command) ==
    UsizeToString(index + 1) \o ": " \o command.name \o " - " \o command.description
        \o " (Definition: " \o command.definition \o ")"

\* the body of Shell::create_custom_command
create_custom_command_result(cmds, cmd_name, cmd_definition, cmd_description) ==
    IF cmd_name.some /\ cmd_definition.some /\ cmd_description.some
    THEN [custom_commands |->
              Append(cmds, CustomCommand(cmd_name.v, cmd_definition.v, cmd_description.v)),
          output |-> <<"Custom command '" \o cmd_name.v \o "' created.">>]
    ELSE [custom_commands |-> cmds,
          output |-> <<"Usage: cc create <command_name> <command_definition> <command_description>">>]

\* the body of Shell::list_custom_commands
list_custom_commands_result(cmds) ==
    IF cmds = <<>> THEN <<"No custom commands defined.">>
    ELSE [i \in 1..Len(cmds) |-> format_entry(i - 1, cmds[i])]

\* delete_custom_command removing every entry that has the name of the one asked for
delete_by_name_result(cmds, cmd_number) ==
    IF cmd_number.some /\ parse_usize(cmd_number.v).ok
       /\ InRange(parse_usize(cmd_number.v).digits, Len(cmds))
    THEN LET removed == cmds[ToNat(parse_usize(cmd_number.v).digits)]
         IN  [custom_commands |-> SelectSeq(cmds, LAMBDA c : c.name # removed.name),
              output |-> <<"Custom command '" \o removed.name \o "' deleted.">>]
    ELSE [custom_commands |-> cmds, output |-> <<"Command number out of range.">>]

\* the body of Shell::delete_custom_command
delete_custom_command_result(cmds, cmd_number) ==
    IF ~cmd_number.some
    THEN [custom_commands |-> cmds, output |-> <<"Usage: cc delete <command_number>">>]
    ELSE LET index == parse_usize(cmd_number.v)
         IN  IF ~index.ok
             THEN [custom_commands |-> cmds, output |-> <<"Invalid command number.">>]
             ELSE IF InRange(index.digits, Len(cmds))
                  THEN LET removed == cmds[(ToNat(index.digits) - 1) + 1]
                       IN  [custom_commands |-> vec_remove(cmds, ToNat(index.digits) - 1),
                            output |-> <<"Custom command '" \o removed.name \o "' deleted.">>]
                  ELSE [custom_commands |-> cmds, output |-> <<"Command number out of range.">>]

\* refactor_custom_command storing a missing field as empty text
refactor_overwriting_result(cmds, cmd_number, new_definition, new_description) ==
    IF cmd_number.some /\ parse_usize(cmd_number.v).ok
       /\ InRange(parse_usize(cmd_number.v).digits, Len(cmds))
    THEN LET k == ToNat(parse_usize(cmd_number.v).digits)
         IN  [custom_commands |->
                  [cmds EXCEPT ![k].definition = new_definition.v,
                               ![k].description = new_description.v],
              output |-> <<"Custom command '" \o cmds[k].name \o "' updated.">>]
    ELSE [custom_commands |-> cmds, output |-> <<"Command number out of range.">>]

\* the body of Shell::refactor_custom_command
refactor_custom_command_result(cmds, cmd_number, new_definition, new_description) ==
    IF ~cmd_number.some
    THEN [custom_commands |-> cmds,
          output |-> <<"Usage: cc refactor <command_number> <new_definition> <new_description>">>]
    ELSE LET index == parse_usize(cmd_number.v)
         IN  IF ~index.ok
             THEN [custom_commands |-> cmds, output |-> <<"Invalid command number.">>]
             ELSE IF InRange(index.digits, Len(cmds))
                  THEN LET k  == (ToNat(index.digits) - 1) + 1
                           c0 == cmds[k]
                           c1 == IF new_definition.some
                                 THEN [c0 EXCEPT !.definition = new_definition.v] ELSE c0
                           c2 == IF new_description.some
                                 THEN [c1 EXCEPT !.description = new_description.v] ELSE c1
                       IN  [custom_commands |-> [cmds EXCEPT ![k] = c2],
                            output |-> <<"Custom command '" \o c2.name \o "' updated.">>]
                  ELSE [custom_commands |-> cmds, output |-> <<"Command number out of range.">>]

\* a handler that changes at most the registry
Registry(method, args, r) ==
    /\ invoked' = Invoke(method, args)
    /\ custom_commands' = r.custom_commands
    /\ output' = r.output
    /\ calls' = <<>>
    /\ status' = "ran" /\ UNCHANGED <<current_dir, history, history_index, env_vars, fs>>

CcLines(action) ==
    {line \in LinesFor("cc") : Len(ArgsOf[line]) >= 2 /\ ArgsOf[line][2] = action}

\* Shell::handle_custom_command, "create" arm, and Shell::create_custom_command
create_custom_command ==
    \E line \in CcLines("create") :
        LET args == Tail(ArgsOf[line])
            a    == <<Get(args, 1), Get(args, 2), Get(args, 3)>>
        IN  /\ Read(line)
            /\ a[3].some => Len(custom_commands) < MaxCommands
            /\ Registry("create_custom_command", a,
                        create_custom_command_result(custom_commands, a[1], a[2], a[3]))

\* Shell::handle_custom_command, "list" arm, and Shell::list_custom_commands
list_custom_commands ==
    \E line \in CcLines("list") :
        /\ Read(line)
        /\ Says("list_custom_commands", <<>>, list_custom_commands_result(custom_commands))

\* Shell::handle_custom_command, "delete" arm, and Shell::delete_custom_command
delete_custom_command ==
    \E line \in CcLines("delete") :
        LET args == Tail(ArgsOf[line])
        IN  /\ Read(line)
            /\ Registry("delete_custom_command", <<Get(args, 1)>>,
                        delete_custom_command_result(custom_commands, Get(args, 1)))

\* Shell::handle_custom_command, "refactor" arm, and Shell::refactor_custom_command
refactor_custom_command ==
    \E line \in CcLines("refactor") :
        LET args == Tail(ArgsOf[line])
            a    == <<Get(args, 1), Get(args, 2), Get(args, 3)>>
        IN  /\ Read(line)
            /\ Registry("refactor_custom_command", a,
                        refactor_custom_command_result(custom_commands, a[1], a[2], a[3]))

\* Shell::handle_custom_command: no action, or an action that is none of the four
handle_custom_command ==
    \E line \in LinesFor("cc") :
        LET args   == Tail(ArgsOf[line])
            action == Get(args, 0)
        IN  /\ Read(line)
            /\ action.some => action.v \notin {"create", "list", "delete", "refactor"}
            /\ Says("handle_custom_command", <<action>>,
                    IF action.some
                    THEN <<"Unknown custom command action: " \o action.v>>
                    ELSE <<"Usage: cc <create/list/delete/refactor>">>)

(***************************************************************************)
(* The environment overlay.                                                *)
(***************************************************************************)
\* split_once at the last "=" instead of the first
split_once_last(line) ==
    LET k == FindLastFrom(line, "=", Len(line))
    IN  IF k = 0 THEN [some |-> FALSE, key |-> "", value |-> ""]
        ELSE [some |-> TRUE, key |-> SubSeq(line, 1, k - 1),
              value |-> SubSeq(line, k + 1, Len(line))]

\* str::split_once('=')
split_once(line) ==
    LET k == Find(line, "=")
    IN  IF k = 0 THEN [some |-> FALSE, key |-> "", value |-> ""]
        ELSE [some |-> TRUE, key |-> SubSeq(line, 1, k - 1),
              value |-> SubSeq(line, k + 1, Len(line))]

\* the loop of Shell::source_env_file over the lines of the file
RECURSIVE source_lines(_, _)
source_lines(env, lines) ==
    IF lines = <<>> THEN env
    ELSE LET kv == split_once(Head(lines))
         IN  source_lines(IF kv.some THEN Insert(env, Trim(kv.key), Trim(kv.value)) ELSE env,
                          Tail(lines))

\* Shell::source_env_file ("source")
source_env_file ==
    \E line \in LinesFor("source") :
        LET file_path == Get(ArgsOf[line], 1)
            full_path == join(current_dir, file_path.v)
            r         == fs_read_to_string(fs, full_path)
        IN  /\ Read(line)
            /\ invoked' = Invoke("source_env_file", <<file_path>>)
            /\ status' = "ran" /\ UNCHANGED <<current_dir, history, history_index, custom_commands, fs>>
            /\ IF ~file_path.some
               THEN /\ calls' = <<>>
                    /\ output' = <<"Usage: source <env_file_path>">>
                    /\ UNCHANGED env_vars
               ELSE /\ calls' = <<Call("read_to_string", <<full_path>>, r.ok)>>
                    /\ IF r.ok
                       THEN /\ env_vars' = source_lines(env_vars, Lines(r.contents))
                            /\ output' = <<"Environment variables sourced.">>
                       ELSE /\ output' = <<"Failed to read env file.">>
                            /\ UNCHANGED env_vars

\* Shell::set_env_var ("setenv")
set_env_var ==
    \E line \in LinesFor("setenv") :
        LET key   == Get(ArgsOf[line], 1)
            value == Get(ArgsOf[line], 2)
        IN  /\ Read(line)
            /\ invoked' = Invoke("set_env_var", <<key, value>>)
            /\ calls' = <<>>
            /\ status' = "ran" /\ UNCHANGED <<current_dir, history, history_index, custom_commands, fs>>
            /\ IF key.some /\ value.some
               THEN /\ env_vars' = Insert(env_vars, key.v, value.v)
                    /\ output' = <<"Environment variable set: " \o key.v \o "=" \o value.v>>
               ELSE /\ output' = <<"Usage: setenv <key> <value>">>
                    /\ UNCHANGED env_vars

(***************************************************************************)
(* The rest of the dispatch table and the loop.                            *)
(***************************************************************************)
\* "help": Shell::display_help is called but its body is not in the source;
\* it takes &self, so it can only print
display_help ==
    \E line \in LinesFor("help") :
        /\ Read(line)
        /\ Says("display_help", <<>>, <<"(help text)">>)

\* handle_file_commands reporting the whole line instead of its first token
handle_file_commands_whole_line ==
    \E line \in InputLines :
        /\ ArgsOf[line] # <<>>
        /\ ArgsOf[line][1] \notin CommandWords
        /\ Read(line)
        /\ Says("handle_file_commands", <<Some(ArgsOf[line][1])>>,
                <<"Unknown command: " \o command_of(line)>>)

\* Shell::handle_file_commands: any other first token
handle_file_commands ==
    \E line \in InputLines :
        /\ ArgsOf[line] # <<>>
        /\ ArgsOf[line][1] \notin CommandWords
        /\ Read(line)
        /\ Says("handle_file_commands", <<Some(ArgsOf[line][1])>>,
                <<"Unknown command: " \o ArgsOf[line][1]>>)

\* Shell::execute_command on a line without tokens
execute_command_empty ==
    \E line \in InputLines :
        /\ ArgsOf[line] = <<>>
        /\ Read(line)
        /\ Says("execute_command", <<>>, <<>>)

\* end of input taken as exit: what the code does not do
read_end_of_input_exits ==
    /\ status = "prompt"
    /\ input' = ""
    /\ before' = Snapshot
    /\ stdin_open' = FALSE
    /\ invoked' = Invoke("exit_shell", <<>>)
    /\ output' = <<>>
    /\ calls' = <<Call("exit", <<"0">>, TRUE)>>
    /\ status' = "exited"
    /\ UNCHANGED <<session, fs>>

\* Shell::run at end of input: read_line returns Ok(0) and leaves the buffer
\* empty, now and on every later iteration
read_end_of_input ==
    /\ status = "prompt"
    /\ input' = ""
    /\ before' = Snapshot
    /\ stdin_open' = FALSE
    /\ Says("execute_command", <<>>, <<>>)

\* Shell::run: read_line returns Err (the bytes of the line are not UTF-8, or
\* the read itself fails) and unwrap() panics
read_line_failed ==
    /\ status = "prompt"
    /\ stdin_open
    /\ input' = ""
    /\ before' = Snapshot
    /\ invoked' = Invoke("run", <<>>)
    /\ calls' = <<Call("read_line", <<>>, FALSE)>>
    /\ output' = <<>>
    /\ status' = "panicked"
    /\ UNCHANGED <<session, fs, stdin_open>>

\* Shell::run, head of the loop: the command has returned, the prompt is
\* printed and the next iteration starts
prompt ==
    /\ status = "ran"
    /\ status' = "prompt"
    /\ input' = ""
    /\ output' = <<>>
    /\ calls' = <<>>
    /\ invoked' = Invoke("run", <<>>)
    /\ before' = Snapshot
    /\ UNCHANGED <<session, fs, stdin_open>>

Next ==
    \/ prompt
    \/ list_dir
    \/ make_dir
    \/ remove_dir
    \/ display_help
    \/ go_backward
    \/ go_forward
    \/ clear_screen
    \/ rename_dir
    \/ move_file
    \/ copy_file
    \/ type_file
    \/ exit_shell
    \/ handle_custom_command
    \/ create_custom_command
    \/ list_custom_commands
    \/ delete_custom_command
    \/ refactor_custom_command
    \/ run_script
    \/ source_env_file
    \/ set_env_var
    \/ handle_file_commands
    \/ execute_command_empty
    \/ read_end_of_input
    \/ read_line_failed

Spec == Init /\ [][Next]_vars

(***************************************************************************)
(* A second specification, of the registry alone: the cc commands as       *)
(* above, and Shell::refactor_custom_command also called directly with     *)
(* every combination of present and absent arguments.  The dispatcher      *)
(* passes the tokens after the position in order, so from a command line a *)
(* new description never arrives without a new definition.                 *)
(***************************************************************************)
RefactorNumbers == {None, Some("1"), Some("2"), Some("x")}

RefactorTexts == {None, Some("d"), Some("x")}

refactor_call ==
    \E cmd_number \in RefactorNumbers, new_definition, new_description \in RefactorTexts :
        /\ status = "prompt"
        /\ stdin_open
        /\ input' = ""
        /\ before' = Snapshot
        /\ UNCHANGED stdin_open
        /\ Registry("refactor_custom_command", <<cmd_number, new_definition, new_description>>,
                    refactor_custom_command_result(custom_commands, cmd_number,
                                                   new_definition, new_description))

InitRegistry == Init /\ fs = FsProject

NextRegistry ==
    \/ prompt
    \/ create_custom_command
    \/ list_custom_commands
    \/ delete_custom_command
    \/ refactor_custom_command
    \/ refactor_call

SpecRegistry == InitRegistry /\ [][NextRegistry]_vars

(***************************************************************************)
(* A third specification, of navigation alone.  No command of the shell    *)
(* adds to the history, so the session itself only ever holds the one      *)
(* entry Shell::new gives it; here go_backward and go_forward are applied  *)
(* to every history of up to MaxHistory entries, with the cursor anywhere  *)
(* in it and the location the entry under the cursor.                      *)
(***************************************************************************)
NavDirs == {"/w", "/a", "/b"}

Histories == UNION {[1..n -> NavDirs] : n \in 1..MaxHistory}

InitNavigation ==
    /\ history \in Histories
    /\ history_index \in 0..(Len(history) - 1)
    /\ current_dir = history[history_index + 1]
    /\ custom_commands = <<>>
    /\ env_vars = NoVars
    /\ fs = FsProject
    /\ status = "prompt"
    /\ stdin_open = TRUE
    /\ input = ""
    /\ output = <<>>
    /\ calls = <<>>
    /\ invoked = Invoke("run", <<>>)
    /\ before = Snapshot

NextNavigation ==
    \/ prompt
    \/ go_backward
    \/ go_forward

SpecNavigation == InitNavigation /\ [][NextNavigation]_vars

(***************************************************************************)
(* A fourth specification, of two sessions that differ only in their       *)
(* overlay.  Once a line other than source or setenv has been handled, a   *)
(* second session is set at the point where the first read the line: the   *)
(* same location, history, cursor, registry and filesystem, another        *)
(* overlay.  What the first session printed, called and ended with is kept *)
(* next to it, and the second session then handles the same line.          *)
(***************************************************************************)
\* an overlay the session can have that differs from env
OtherOverlay(env) == IF env = NoVars THEN ("A" :> "5") ELSE NoVars

\* the first session's line, output and calls are kept; before holds its end
twin_session ==
    /\ status # "prompt"
    /\ invoked.method # "run"
    /\ stdin_open
    /\ ArgsOf[input] # <<>> => ArgsOf[input][1] \notin {"source", "setenv"}
    /\ current_dir' = before.current_dir
    /\ history' = before.history
    /\ history_index' = before.history_index
    /\ custom_commands' = before.custom_commands
    /\ fs' = before.fs
    /\ env_vars' = OtherOverlay(before.env_vars)
    /\ before' = [current_dir |-> current_dir, history |-> history,
                  history_index |-> history_index, custom_commands |-> custom_commands,
                  env_vars |-> before.env_vars, fs |-> fs, status |-> status]
    /\ status' = "prompt"
    /\ UNCHANGED <<input, output, calls, invoked, stdin_open>>

\* the second session, about to read the line the first one handled
Twin == status = "prompt" /\ invoked.method # "run"

\* the second session reads the line the first one read: its read neither
\* fails nor meets the end of input
same_line == Twin /\ input' = input /\ Next /\ invoked'.method # "run" /\ stdin_open'

NextOverlay ==
    \/ (~Twin /\ Next)
    \/ twin_session
    \/ same_line

SpecOverlay == Init /\ [][NextOverlay]_vars

(***************************************************************************)
(* Reading the session's output back.                                      *)
(***************************************************************************)
Ran(method) == status = "ran" /\ invoked.method = method

\* the text of `l` up to the first occurrence of the text `sep`
RECURSIVE Before(_, _)
Before(l, sep) ==
    IF Len(l) < Len(sep) THEN l
    ELSE IF SubSeq(l, 1, Len(sep)) = sep THEN ""
         ELSE Char(l, 1) \o Before(Tail(l), sep)

After(l, sep) == SubSeq(l, Len(Before(l, sep)) + Len(sep) + 1, Len(l))

\* the fields of a line "{number}: {name} - {description} (Definition: {definition})"
NumberField(l) == Before(l, ": ")

NameField(l) == Before(After(l, ": "), " - ")

DescriptionField(l) == Before(After(After(l, ": "), " - "), " (Definition: ")

DefinitionField(l) ==
    LET rest == After(After(After(l, ": "), " - "), " (Definition: ")
    IN  SubSeq(rest, 1, Len(rest) - 1)

EmptyMessage == "No custom commands defined."

\* the lines of a listing that describe entries
EntryLines(out) == IF out = <<EmptyMessage>> THEN <<>> ELSE out

\* how many lines of a listing carry the name n
Named(out, n) == Cardinality({i \in DOMAIN EntryLines(out) : NameField(out[i]) = n})

\* the position a delete or refactor was asked for, once it has parsed
Position == ToNat(parse_usize(invoked.args[1].v).digits)

ValidPosition ==
    /\ invoked.args[1].some
    /\ parse_usize(invoked.args[1].v).ok
    /\ InRange(parse_usize(invoked.args[1].v).digits, Len(before.custom_commands))

(***************************************************************************)
(* C1.  In every reachable state the cursor is an index into the history   *)
(* and the history entry under the cursor is the current location.         *)
(***************************************************************************)
C1_CursorInHistory ==
    /\ 0 <= history_index
    /\ history_index < Len(history)
    /\ history[history_index + 1] = current_dir

C1_Witness == Ran("go_backward") /\ history_index = 0 /\ current_dir = StartDir

(***************************************************************************)
(* C2.  As claimed: from an empty registry, the line                       *)
(*   cc create build "echo hi" "builds the thing"                          *)
(* stores definition `echo hi` and description `builds the thing`, and     *)
(* cc list then prints `1: build - builds the thing (Definition: echo hi)`.*)
(***************************************************************************)
CreateBuildLine == "cc create build \"echo hi\" \"builds the thing\""

\* the registry the create line leaves when dispatched on the empty registry
CreatedFromEmpty ==
    LET args == Tail(ArgsOf[CreateBuildLine])
    IN  create_custom_command_result(<<>>, Get(args, 1), Get(args, 2), Get(args, 3)).custom_commands

C2_QuotedArguments ==
    /\ (Ran("create_custom_command") /\ input = CreateBuildLine /\ before.custom_commands = <<>>)
           => custom_commands = <<CustomCommand("build", "echo hi", "builds the thing")>>
    /\ (Ran("list_custom_commands") /\ before.custom_commands = CreatedFromEmpty)
           => output = <<"1: build - builds the thing (Definition: echo hi)">>

(***************************************************************************)
(* C2, amended.  The line is split on whitespace and a quote is an         *)
(* ordinary character: from an empty registry the create line stores       *)
(* definition `"echo` and description `hi"` (the further tokens are        *)
(* dropped), and cc list on that registry prints exactly                   *)
(*   1: build - hi" (Definition: "echo)                                    *)
(***************************************************************************)
C2_WhitespaceTokens ==
    /\ (Ran("create_custom_command") /\ input = CreateBuildLine /\ before.custom_commands = <<>>)
           => custom_commands = <<CustomCommand("build", "\"echo", "hi\"")>>
    /\ (Ran("list_custom_commands")
            /\ before.custom_commands = <<CustomCommand("build", "\"echo", "hi\"")>>)
           => output = <<"1: build - hi\" (Definition: \"echo)">>

C2_Witness ==
    /\ Ran("list_custom_commands")
    /\ custom_commands = <<CustomCommand("build", "\"echo", "hi\"")>>
    /\ output = <<"1: build - hi\" (Definition: \"echo)">>

(***************************************************************************)
(* C3.  As claimed: right after a successful cc delete k, what cc list     *)
(* prints has no line whose name field is the name of the removed entry.   *)
(* cc list prints list_custom_commands_result of the registry, and the     *)
(* prompt in between leaves the registry alone.                            *)
(***************************************************************************)
C3_RemovedNameGone ==
    (Ran("delete_custom_command") /\ ValidPosition)
        => Named(list_custom_commands_result(custom_commands),
                 before.custom_commands[Position].name) = 0

(***************************************************************************)
(* C3, amended.  Right after a successful cc delete k, cc list prints one  *)
(* entry line fewer than before the delete, and exactly one line fewer     *)
(* with the removed entry's name: the name is gone from the listing only   *)
(* when no other entry shares it.                                          *)
(***************************************************************************)
C3_OneLineFewer ==
    (Ran("delete_custom_command") /\ ValidPosition)
        => LET removed == before.custom_commands[Position].name
               was     == list_custom_commands_result(before.custom_commands)
               now     == list_custom_commands_result(custom_commands)
           IN  /\ Len(EntryLines(now)) = Len(EntryLines(was)) - 1
               /\ Named(now, removed) = Named(was, removed) - 1
               /\ output = <<"Custom command '" \o removed \o "' deleted.">>

C3_Witness ==
    /\ Ran("delete_custom_command")
    /\ ValidPosition
    /\ Named(list_custom_commands_result(custom_commands),
             before.custom_commands[Position].name) = 1

(***************************************************************************)
(* C4.  cc delete with a decimal position that is 0 or above the registry  *)
(* length reports out of range; with a position that is no integer it      *)
(* reports an invalid number; neither changes the registry.                *)
(***************************************************************************)
IsDecimal(t) == t # "" /\ AllDigits(t)

IsInteger(t) ==
    \/ IsDecimal(t)
    \/ (Len(t) > 1 /\ Char(t, 1) \in {"+", "-"} /\ AllDigits(Tail(t)))

\* the value of the decimal text t is 0 or greater than n (n below 10^9)
ZeroOrAbove(t, n) ==
    LET d == StripZeros(t)
    IN  Len(d) > 9 \/ ToNat(d) = 0 \/ ToNat(d) > n

C4_DeleteRejects ==
    (Ran("delete_custom_command") /\ invoked.args[1].some)
        => LET t == invoked.args[1].v
           IN  /\ (IsDecimal(t) /\ ZeroOrAbove(t, Len(before.custom_commands)))
                      => /\ output = <<"Command number out of range.">>
                         /\ custom_commands = before.custom_commands
               /\ ~IsInteger(t)
                      => /\ output = <<"Invalid command number.">>
                         /\ custom_commands = before.custom_commands

(***************************************************************************)
(* C5.  A refactor on a valid position k changes at most the fields        *)
(* supplied: an absent definition leaves the definition of entry k as it   *)
(* was, an absent description leaves its description as it was, a supplied *)
(* field takes the value given; the name of entry k, every other entry and *)
(* the length stay as they were, and success is reported with the name,    *)
(* also when neither field is supplied.                                    *)
(***************************************************************************)
C5_RefactorFrame ==
    (Ran("refactor_custom_command") /\ ValidPosition)
        => LET k   == Position
               old == before.custom_commands
               new == custom_commands
               nd  == invoked.args[2]
               ns  == invoked.args[3]
           IN  /\ Len(new) = Len(old)
               /\ \A j \in 1..Len(old) : j # k => new[j] = old[j]
               /\ new[k].name = old[k].name
               /\ new[k].definition = (IF nd.some THEN nd.v ELSE old[k].definition)
               /\ new[k].description = (IF ns.some THEN ns.v ELSE old[k].description)
               /\ (~nd.some /\ ~ns.some) => new = old
               /\ output = <<"Custom command '" \o old[k].name \o "' updated.">>

\* only a new description arrived, and it replaced a different one
C5_Witness ==
    /\ Ran("refactor_custom_command")
    /\ ValidPosition
    /\ ~invoked.args[2].some
    /\ invoked.args[3].some
    /\ Len(custom_commands) = 2
    /\ custom_commands[Position].description # before.custom_commands[Position].description
    /\ custom_commands[Position].definition = before.custom_commands[Position].definition

(***************************************************************************)
(* C6.  cc list on a registry of N >= 1 entries prints N lines; line i     *)
(* starts with the number i and carries the name, description and          *)
(* definition of entry i; on the empty registry it prints the empty        *)
(* message, which is no entry line.                                        *)
(***************************************************************************)
C6_ListNumbering ==
    Ran("list_custom_commands")
        => LET reg == before.custom_commands
           IN  IF reg = <<>>
               THEN output = <<EmptyMessage>> /\ ~IsDecimal(NumberField(EmptyMessage))
               ELSE /\ Len(output) = Len(reg)
                    /\ \A i \in 1..Len(reg) :
                          /\ IsDecimal(NumberField(output[i]))
                          /\ StripZeros(NumberField(output[i])) = NumberField(output[i])
                          /\ ToNat(NumberField(output[i])) = i
                          /\ NameField(output[i]) = reg[i].name
                          /\ DescriptionField(output[i]) = reg[i].description
                          /\ DefinitionField(output[i]) = reg[i].definition

C6_Witness ==
    /\ Ran("list_custom_commands")
    /\ Len(output) = 2
    /\ NumberField(output[1]) = "1"
    /\ NumberField(output[2]) = "2"
    /\ NameField(output[1]) # NameField(output[2])

HasEq(l) == Find(l, "=") # 0

KeyOf(l) == Trim(SubSeq(l, 1, Find(l, "=") - 1))

ValueOf(l) == Trim(SubSeq(l, Find(l, "=") + 1, Len(l)))

C8_SourceBindings ==
    (Ran("source_env_file") /\ Len(calls) = 1 /\ calls[1].ok)
        => LET file  == fs_read_to_string(before.fs, calls[1].args[1]).contents
               ls    == Lines(file)
               binds(k) == {i \in 1..Len(ls) : HasEq(ls[i]) /\ KeyOf(ls[i]) = k}
               last(k)  == CHOOSE i \in binds(k) : \A j \in binds(k) : j <= i
               keys  == {KeyOf(ls[i]) : i \in {j \in 1..Len(ls) : HasEq(ls[j])}}
           IN  /\ DOMAIN env_vars = DOMAIN before.env_vars \cup keys
               /\ \A k \in DOMAIN env_vars :
                     env_vars[k] = (IF binds(k) # {} THEN ValueOf(ls[last(k)])
                                    ELSE before.env_vars[k])
               /\ (file = "A=1\nBADLINE\nB = 2" /\ before.env_vars = NoVars)
                     => env_vars = ("A" :> "1") @@ ("B" :> "2")
               /\ output = <<"Environment variables sourced.">>

C8_Witness ==
    /\ Ran("source_env_file")
    /\ input = "source f.env"
    /\ before.env_vars = NoVars
    /\ env_vars = ("A" :> "1") @@ ("B" :> "2")

(***************************************************************************)
(* C9.  As claimed: whatever mkdir was given and whatever was there, once  *)
(* mkdir has run, an rmdir of the same name leaves the entries of the      *)
(* current location as they were before the mkdir.  rmdir applies          *)
(* fs_remove_dir to the joined path, and the prompt in between leaves the  *)
(* filesystem alone.                                                       *)
(***************************************************************************)
Entries(f) == fs_read_dir(f, current_dir).names

AfterRmdir == fs_remove_dir(fs, join(current_dir, invoked.args[1].v)).fs

C9_MkdirRmdirAlways ==
    (Ran("make_dir") /\ invoked.args[1].some) => Entries(AfterRmdir) = Entries(before.fs)

(***************************************************************************)
(* C9, amended.  mkdir then rmdir of the same name leaves the entries of   *)
(* the current location as they were before the mkdir when the name is a   *)
(* single path component that did not name an empty directory there: a new *)
(* name is created and removed again, a regular file or a directory with   *)
(* entries stays.  (An empty directory that was there is removed, and of   *)
(* several components only the last is removed.)                           *)
(***************************************************************************)
SingleComponent(t) == Len(Components(t)) = 1 /\ Char(t, 1) # "/" /\ t \notin {".", ".."}

WasEmptyDirectory(t) ==
    LET r == Lookup(before.fs, join(current_dir, t))
    IN  r.kind = "dir" /\ Children(before.fs, r.at) = {}

C9_MkdirRmdirNewName ==
    (Ran("make_dir") /\ invoked.args[1].some /\ SingleComponent(invoked.args[1].v)
        /\ ~WasEmptyDirectory(invoked.args[1].v))
        => /\ Entries(AfterRmdir) = Entries(before.fs)
           /\ Lookup(before.fs, join(current_dir, invoked.args[1].v)).kind = "none"
                 => /\ calls[1].ok
                    /\ invoked.args[1].v \in Entries(fs)
                    /\ invoked.args[1].v \notin Entries(AfterRmdir)

\* mkdir made a new directory next to other entries, and rmdir would remove it
C9_Witness ==
    /\ Ran("make_dir")
    /\ input = "mkdir sub"
    /\ "sub" \notin Entries(before.fs)
    /\ Entries(fs) = Entries(before.fs) \cup {"sub"}
    /\ Entries(before.fs) # {}
    /\ Entries(AfterRmdir) = Entries(before.fs)

(***************************************************************************)
(* C10.  Whenever the std::fs call of dir, mkdir, rmdir, rename, move,     *)
(* copy, type or source, or the spawn of run, fails, the command prints a  *)
(* message.                                                                *)
(***************************************************************************)
FallibleHandlers ==
    {"list_dir", "make_dir", "remove_dir", "rename_dir", "move_file", "copy_file",
     "type_file", "source_env_file", "run_script"}

C10_FailureReported ==
    (status = "ran" /\ invoked.method \in FallibleHandlers
        /\ \E i \in 1..Len(calls) : calls[i].op # "exists" /\ ~calls[i].ok)
        => output # <<>>

(***************************************************************************)
(* C11.  A command that lacks a required argument (mkdir, rmdir, type,     *)
(* run, source without argument; rename, move, copy, setenv with fewer     *)
(* than two; cc create with fewer than three; cc delete and cc refactor    *)
(* without position; cc without action) makes no filesystem call, spawns   *)
(* nothing, leaves the session and the filesystem as they were, prints one *)
(* usage message and returns to the loop.                                  *)
(***************************************************************************)
\* how many arguments the command word requires
Required ==
    [w \in {"mkdir", "rmdir", "type", "run", "source"} |-> 1]
    @@ [w \in {"rename", "move", "copy", "setenv"} |-> 2]

\* how many tokens a cc action requires after the action
RequiredCc == ("create" :> 3) @@ ("delete" :> 1) @@ ("refactor" :> 1)

LacksArgument(line) ==
    LET a == ArgsOf[line]
    IN  /\ a # <<>>
        /\ \/ (a[1] \in DOMAIN Required /\ Len(a) - 1 < Required[a[1]])
           \/ (a[1] = "cc" /\ Len(a) = 1)
           \/ (a[1] = "cc" /\ Len(a) >= 2 /\ a[2] \in DOMAIN RequiredCc
                 /\ Len(a) - 2 < RequiredCc[a[2]])

IsUsage(l) == Len(l) > 7 /\ SubSeq(l, 1, 7) = "Usage: "

C11_UsageOnly ==
    (status # "prompt" /\ LacksArgument(input))
        => /\ status = "ran"
           /\ calls = <<>>
           /\ Snapshot = before
           /\ Len(output) = 1
           /\ IsUsage(output[1])

\* a rename that names only the old entry, which exists
C11_Witness ==
    /\ Ran("rename_dir")
    /\ input = "rename sub"
    /\ path_exists(fs, join(current_dir, "sub"))
    /\ output = <<"Usage: rename <old_name> <new_name>">>

(***************************************************************************)
(* C12.  The session is terminated only by exit, with status 0, or by a    *)
(* failed spawn in clear; after every other outcome the command has        *)
(* returned to the loop, which goes on to the next line.                   *)
(***************************************************************************)
Terminated == status \in {"exited", "panicked"}

ByExit ==
    /\ status = "exited"
    /\ invoked.method = "exit_shell"
    /\ calls = <<Call("exit", <<"0">>, TRUE)>>

ByClear ==
    /\ status = "panicked"
    /\ invoked.method = "clear_screen"
    /\ calls = <<Call("spawn", <<"cmd", "/C", "cls">>, FALSE)>>

C12_TerminatedOnlyByExitOrClear ==
    /\ Terminated => (ByExit \/ ByClear)
    /\ (status # "prompt" /\ ~ByExit /\ ~ByClear) => (status = "ran" /\ ENABLED prompt)

(***************************************************************************)
(* C13.  A line whose first token is none of the sixteen command words     *)
(* prints "Unknown command: " and that token; cc with a second token that  *)
(* is none of create, list, delete, refactor prints "Unknown custom        *)
(* command action: " and that token; a line without tokens prints nothing. *)
(* In all three cases no call is made and the session and the filesystem   *)
(* stay as they were.                                                      *)
(***************************************************************************)
\* a line was read and dispatched
Dispatched == status # "prompt" /\ invoked.method # "run"

CcActions == {"create", "list", "delete", "refactor"}

Untouched == status = "ran" /\ calls = <<>> /\ Snapshot = before

C13_UnknownReported ==
    Dispatched
        => LET a == ArgsOf[input]
           IN  /\ Cardinality(CommandWords) = 16
               /\ a = <<>> => (output = <<>> /\ Untouched)
               /\ (a # <<>> /\ a[1] \notin CommandWords)
                     => (output = <<"Unknown command: " \o a[1]>> /\ Untouched)
               /\ (Len(a) >= 2 /\ a[1] = "cc" /\ a[2] \notin CcActions)
                     => (output = <<"Unknown custom command action: " \o a[2]>> /\ Untouched)

\* a command word in another case, with an argument that names a directory
C13_Witness ==
    /\ Ran("handle_file_commands")
    /\ input = "Dir sub"
    /\ is_dir(fs, join(current_dir, "sub"))
    /\ output = <<"Unknown command: Dir">>

(***************************************************************************)
(* C14.  run with a path spawns a child only when the path, joined to the  *)
(* current location, exists, and then spawns sh on that path once; when it *)
(* does not exist it prints "Script not found: " and the path as typed and *)
(* spawns nothing.  A failure message is printed exactly when the spawn    *)
(* fails; when the child ran, nothing is printed whatever its exit status. *)
(***************************************************************************)
Spawns == {i \in DOMAIN calls : calls[i].op = "spawn"}

IsRunFailure(l) == Len(l) >= 21 /\ SubSeq(l, 1, 21) = "Failed to run script:"

C14_RunSpawnsExisting ==
    (status = "ran" /\ Len(ArgsOf[input]) >= 2 /\ ArgsOf[input][1] = "run")
        => LET typed  == ArgsOf[input][2]
               path   == join(before.current_dir, typed)
               exists == Lookup(before.fs, path).kind \in {"dir", "file"}
           IN  /\ Spawns # {} => exists
               /\ ~exists => (output = <<"Script not found: " \o typed>> /\ Spawns = {})
               /\ exists => /\ Cardinality(Spawns) = 1
                            /\ \A i \in Spawns : calls[i].args = <<"sh", path>>
               /\ (\E i \in DOMAIN output : IsRunFailure(output[i]))
                     <=> (\E i \in Spawns : ~calls[i].ok)
               /\ (\E i \in DOMAIN calls : calls[i].op = "wait") => output = <<>>
               /\ Snapshot = before

\* the script exists, the child was spawned and ended with status 1
C14_Witness ==
    /\ status = "ran"
    /\ input = "run ../s.sh"
    /\ calls = <<Call("exists", <<"/w/../s.sh">>, TRUE),
                 Call("spawn", <<"sh", "/w/../s.sh">>, TRUE),
                 Call("wait", <<"1">>, TRUE)>>
    /\ output = <<>>

(***************************************************************************)
(* C15.  In every step the environment only grows, and a key is bound to   *)
(* what the step wrote for it last or else to what it was bound to: a      *)
(* setenv with key and value writes that value for that key, a source      *)
(* whose file was read writes, for each key of a line with "=", the value  *)
(* of the last such line; every other step, a source whose read fails and  *)
(* a setenv lacking an argument among them, writes nothing.  Step by step  *)
(* this makes each key's value the most recent one written for it.         *)
(***************************************************************************)
\* the lines a command with tokens `a` sources, read in filesystem f at dir
SourcedLines(a, f, dir) ==
    IF Len(a) >= 2 /\ a[1] = "source" /\ fs_read_to_string(f, join(dir, a[2])).ok
    THEN Lines(fs_read_to_string(f, join(dir, a[2])).contents)
    ELSE <<>>

IsSetenv(a) == Len(a) >= 3 /\ a[1] = "setenv"

\* the keys a command writes
WrittenKeys(a, ls) ==
    IF IsSetenv(a) THEN {a[2]}
    ELSE {KeyOf(ls[i]) : i \in {j \in 1..Len(ls) : HasEq(ls[j])}}

\* the last line of ls that binds k, 0 when there is none
RECURSIVE LastBinding(_, _, _)
LastBinding(ls, k, i) ==
    IF i = 0 THEN 0
    ELSE IF HasEq(ls[i]) /\ KeyOf(ls[i]) = k THEN i ELSE LastBinding(ls, k, i - 1)

\* the value k has after the command, given the value it had
ValueAfter(env, a, ls, k) ==
    IF IsSetenv(a) /\ k = a[2] THEN a[3]
    ELSE IF LastBinding(ls, k, Len(ls)) # 0 THEN ValueOf(ls[LastBinding(ls, k, Len(ls))])
    ELSE env[k]

EnvStep(env, next, a, ls) ==
    /\ DOMAIN env \subseteq DOMAIN next
    /\ DOMAIN next = DOMAIN env \cup WrittenKeys(a, ls)
    /\ \A k \in DOMAIN next : next[k] = ValueAfter(env, a, ls, k)
    /\ (~IsSetenv(a) /\ ls = <<>>) => next = env

C15_AdditiveLastWrite ==
    [][IF status' = "ran"
       THEN EnvStep(env_vars, env_vars', ArgsOf[input'],
                    SourcedLines(ArgsOf[input'], fs, current_dir))
       ELSE env_vars' = env_vars]_vars

\* a setenv replaced the value a sourced file had bound and kept the other key
C15_Witness ==
    /\ Ran("set_env_var")
    /\ input = "setenv A 5"
    /\ before.env_vars = ("A" :> "1") @@ ("B" :> "2")
    /\ env_vars = ("A" :> "5") @@ ("B" :> "2")

(***************************************************************************)
(* C16.  "<-" moves the cursor one entry back while there is an earlier    *)
(* entry and "->" one entry on while there is a later one, the location    *)
(* following the cursor; with the cursor at the first entry "<-", and with *)
(* the cursor at the last entry "->", changes neither cursor, location nor *)
(* history, so going further than the history reaches leaves the location  *)
(* at history[0], respectively at the last entry.  Either way nothing is   *)
(* printed and the session goes on.                                        *)
(***************************************************************************)
Quiet == status = "ran" /\ output = <<>> /\ calls = <<>> /\ history = before.history

C16_StopsAtEnds ==
    (status # "prompt" /\ ArgsOf[input] # <<>>)
        => LET was  == before.history_index
               last == Len(before.history) - 1
           IN  /\ ArgsOf[input][1] = "<-"
                     => /\ Quiet
                        /\ history_index = (IF was > 0 THEN was - 1 ELSE 0)
                        /\ current_dir = history[history_index + 1]
                        /\ was = 0 => (current_dir = before.current_dir /\ current_dir = history[1])
               /\ ArgsOf[input][1] = "->"
                     => /\ Quiet
                        /\ history_index = (IF was < last THEN was + 1 ELSE last)
                        /\ current_dir = history[history_index + 1]
                        /\ was = last => (current_dir = before.current_dir
                                          /\ current_dir = history[Len(history)])

\* "<-" with the cursor already at the first of three entries
C16_Witness ==
    /\ status = "ran"
    /\ input = "<-"
    /\ Len(history) = 3
    /\ history[1] # history[2]
    /\ before.history_index = 0
    /\ history_index = 0
    /\ current_dir = history[1]

(***************************************************************************)
(* C17.  Two sessions that differ only in their overlay and handle the     *)
(* same line, other than source and setenv, ask the same of the filesystem *)
(* and of the process runner: the same calls with the same arguments, the  *)
(* spawned program, its arguments and what it is given among them.  When   *)
(* those calls also answer the same, the sessions print the same (a        *)
(* directory listing comes in the order the filesystem gives it, so there  *)
(* the same names) and end with the same status, location, history,        *)
(* cursor, registry and filesystem, each with its own overlay unchanged.   *)
(***************************************************************************)
\* what a call asks, apart from how it answers; the exit status of the child
\* is an answer
Request(call) == [op |-> call.op, args |-> call.args]

Requests(cs) ==
    LET asked == SelectSeq(cs, LAMBDA call : call.op # "wait")
    IN  [i \in 1..Len(asked) |-> Request(asked[i])]

SameNames(a, b) == Len(a) = Len(b) /\ {a[i] : i \in 1..Len(a)} = {b[i] : i \in 1..Len(b)}

SameOutcome(first, method, out1, out2, status2, dir2, hist2, idx2, cmds2, env1, env2, fs2) ==
    /\ IF method = "list_dir" THEN SameNames(out1, out2) ELSE out1 = out2
    /\ status2 = first.status
    /\ dir2 = first.current_dir
    /\ hist2 = first.history
    /\ idx2 = first.history_index
    /\ cmds2 = first.custom_commands
    /\ fs2 = first.fs
    /\ env2 = env1

C17_OverlayNotConsulted ==
    [][(Twin /\ status' # "prompt")
         => /\ env_vars # before.env_vars
            /\ invoked'.method = invoked.method
            /\ Requests(calls') = Requests(calls)
            /\ calls' = calls
                 => SameOutcome(before, invoked.method, output, output', status', current_dir',
                                history', history_index', custom_commands', env_vars,
                                env_vars', fs')]_vars

\* the first session, with two variables bound, had spawned sh on the script;
\* the second, with none bound, is about to read the same line
C17_Witness ==
    /\ Twin
    /\ input = "run ../s.sh"
    /\ before.env_vars = ("A" :> "1") @@ ("B" :> "2")
    /\ env_vars = NoVars
    /\ \E i \in DOMAIN calls : calls[i] = Call("spawn", <<"sh", "/w/../s.sh">>, TRUE)

(***************************************************************************)
(* C18.  In every reachable state the history is the one entry Shell::new  *)
(* gave it, the starting location, the cursor is 0 and the location is the *)
(* starting location; so "<-" and "->" change nothing and print nothing    *)
(* wherever they are typed.                                                *)
(***************************************************************************)
C18_HistoryIsStart ==
    /\ history = <<StartDir>>
    /\ history_index = 0
    /\ current_dir = StartDir
    /\ (status # "prompt" /\ ArgsOf[input] # <<>> /\ ArgsOf[input][1] \in {"<-", "->"})
          => (status = "ran" /\ Snapshot = before /\ output = <<>> /\ calls = <<>>)

\* "->" typed after other commands have changed the filesystem, the registry
\* and the overlay
C18_Witness ==
    /\ Ran("go_forward")
    /\ fs \notin InitialFilesystems
    /\ custom_commands # <<>>
    /\ env_vars # NoVars
    /\ history = <<StartDir>>
    /\ Snapshot = before

(***************************************************************************)
(* C19.  dir, mkdir, rmdir, rename, move, copy, type, run, help and        *)
(* cc list leave location, history, cursor, registry and overlay as they   *)
(* were, whether their call succeeds or fails.  The registry differs after *)
(* a command only if the command was cc create, cc delete or cc refactor,  *)
(* and the overlay only if it was source or setenv.                        *)
(***************************************************************************)
ReadOnlyWords == {"dir", "mkdir", "rmdir", "rename", "move", "copy", "type", "run", "help"}

SessionOf(snap) ==
    <<snap.current_dir, snap.history, snap.history_index, snap.custom_commands, snap.env_vars>>

AtEndOfInput == ~stdin_open

C20_EndOfInputLoops ==
    /\ [](AtEndOfInput => (~Terminated /\ ENABLED (prompt \/ read_end_of_input)))
    /\ [][AtEndOfInput' => /\ UNCHANGED <<session, fs>>
                           /\ output' = <<>>
                           /\ calls' = <<>>
                           /\ input' = ""
                           /\ status' \in {"prompt", "ran"}
                           /\ AtEndOfInput => AtEndOfInput']_vars

\* the end of input was met in a session that had a registry and an overlay,
\* and the empty line was dispatched
C20_Witness ==
    /\ AtEndOfInput
    /\ Ran("execute_command")
    /\ custom_commands # <<>>
    /\ env_vars # NoVars
    /\ Snapshot = before

====
